---------------------------- MODULE Spec2Model ----------------------------
(* Model of the PDF summarisation server (src/index.js).                   *)
(*                                                                         *)
(* Texts are sequences of tokens.  A token is either the word "Chapter"    *)
(* in some letter case, the space character, another whitespace character, *)
(* a decimal digit, or an ordinary letter.  LLM responses are sequences of *)
(* tokens as well: the code fence, the word json, whitespace and JSON       *)
(* values.  Every request runs the /upload handler; its await points are   *)
(* the values of pc.                                                       *)
EXTENDS Integers, Sequences, FiniteSets, TLC

\* ------------------------------------------------------------------ bounds
MaxReq == 2         \* upload requests the process receives
MaxLen == 6         \* tokens in the longest text given to the segmenter

Req == 1..MaxReq

\* ------------------------------------------------------------ text tokens
Word == {"Chapter", "CHAPTER"}
Space == " "
Whitespace == {" ", "\n"}
Digit == {"1"}
Letter == {"a"}
Alphabet == Word \cup Whitespace \cup Digit \cup Letter

Texts == UNION {[1..n -> Alphabet] : n \in 0..MaxLen}

\* Documents the PDF extractor returns in the server specification: the
\* empty text, a heading followed by whitespace only, one chapter after a
\* preamble, and two chapters (the second heading in upper case).
Docs ==
    {<<>>,
     <<"Chapter", " ", "1", "1", "\n">>,
     <<"a", "Chapter", "\n", "1", " ">>,
     <<"Chapter", " ", "1", "\n", "a", "CHAPTER", " ", "1", "a", "\n">>}

\* -------------------------------------------------- segmentIntoChapters
\* \d in place of \d+.
DigitRunOne(text, q) == IF q <= Len(text) /\ text[q] \in Digit THEN 1 ELSE 0

\* Number of consecutive digits of text from position q on (\d+ is greedy).
RECURSIVE DigitRun(_, _)
DigitRun(text, q) ==
    IF q <= Len(text) /\ text[q] \in Digit THEN 1 + DigitRun(text, q + 1) ELSE 0

IsWord(tok) == tok \in Word

IsSeparator(tok) == tok = Space

\* Length of the match of /Chapter \d+/i at position p, 0 when there is none.
MatchLen(text, p) ==
    IF /\ p + 2 <= Len(text)
       /\ IsWord(text[p])
       /\ IsSeparator(text[p + 1])
       /\ text[p + 2] \in Digit
    THEN 2 + DigitRun(text, p + 2)
    ELSE 0

\* text.split(regex): the pieces between the matches, found left to right.
RECURSIVE SplitFrom(_, _, _, _)
SplitFrom(text, p, start, acc) ==
    IF p > Len(text)
    THEN Append(acc, SubSeq(text, start, Len(text)))
    ELSE LET m == MatchLen(text, p)
         IN  IF m > 0
             THEN SplitFrom(text, p + m, p + m,
                            Append(acc, SubSeq(text, start, p - 1)))
             ELSE SplitFrom(text, p + 1, start, acc)

split(text) == SplitFrom(text, 1, 1, <<>>)

RECURSIVE trimStart(_)
trimStart(s) ==
    IF s # <<>> /\ Head(s) \in Whitespace THEN trimStart(Tail(s)) ELSE s

RECURSIVE trimEnd(_)
trimEnd(s) ==
    IF s # <<>> /\ s[Len(s)] \in Whitespace
    THEN trimEnd(SubSeq(s, 1, Len(s) - 1))
    ELSE s

trim(s) == trimEnd(trimStart(s))

\* chapter !== "" without the trim.
KeepChapterNonEmpty(chapter) == chapter # <<>>

KeepChapter(chapter) == trim(chapter) # <<>>

segmentIntoChapters(text) == SelectSeq(split(text), KeepChapter)


\* ------------------------------------------------ getSummaryFromDeepSeek
Fence == "fence"      \* the three-backquote code fence
JsonTokens == {"{A}", "null"}

\* Response texts the completion endpoint returns in the server
\* specification: a fenced object, text that is not JSON, a fenced JSON
\* null, and two objects separated by a fence.
Responses ==
    {<<Fence, "json", " ", "{A}", " ", Fence>>, <<"json", "{A}">>,
     <<Fence, "null", Fence>>, <<"{A}", Fence, "{A}">>}

\* responseText.replace(/(fence)json|(fence)/g, ""), line 96
RECURSIVE stripFences(_)
stripFences(s) ==
    IF s = <<>> THEN <<>>
    ELSE IF Head(s) = Fence
         THEN IF Len(s) >= 2 /\ s[2] = "json"
              THEN stripFences(SubSeq(s, 3, Len(s)))
              ELSE stripFences(Tail(s))
         ELSE <<Head(s)>> \o stripFences(Tail(s))

cleanedResponse(responseText) == trim(stripFences(responseText))

\* JSON.parse accepts exactly one JSON value.
IsJSON(cleaned) == Len(cleaned) = 1 /\ cleaned[1] \in JsonTokens

Undefined == "undefined"

Fields ==
    {"summary", "clarity_score", "cohesion_score", "coverage_score",
     "granularity_score", "storytelling_score", "overall_score"}

\* The object the token {A} denotes: the seven fields of the prompt and
\* one the handler does not read.
ObjectOf(tok) ==
    [summary |-> "sA", clarity_score |-> "9", cohesion_score |-> "8",
     coverage_score |-> "7", granularity_score |-> "6",
     storytelling_score |-> "5", overall_score |-> "4", note |-> "n"]

\* A parse failure answered with a default object instead of an error.
getSummaryDefaulting(responseText) ==
    LET cleaned == cleanedResponse(responseText)
    IN  IF IsJSON(cleaned) THEN cleaned[1] ELSE "{A}"

\* Outcome of getSummaryFromDeepSeek once the completion has arrived:
\* "throw" (line 105) or the parsed value's token (line 101).
getSummaryFromDeepSeek(responseText) ==
    LET cleaned == cleanedResponse(responseText)
    IN  IF IsJSON(cleaned) THEN cleaned[1] ELSE "throw"

\* const { summary, ... } = <object>: a missing property is undefined.
Destructure(obj) ==
    [f \in Fields |-> IF f \in DOMAIN obj THEN obj[f] ELSE Undefined]

NoResult == [f \in Fields |-> Undefined]

\* ------------------------------------------------ storeSummaryInSupabase
\* Two score columns exchanged.
NewRowScoresSwapped(chapterNumber, summary, clarityScore, cohesionScore, coverageScore, granularityScore, storytellingScore, overallScore) ==
    [chapter_number |-> chapterNumber, summary |-> summary,
     clarity_score |-> clarityScore, cohesion_score |-> coverageScore,
     coverage_score |-> cohesionScore, granularity_score |-> granularityScore,
     storytelling_score |-> storytellingScore, overall_score |-> overallScore]

\* The row object of the insert, lines 120-129.
NewRow(chapterNumber, summary, clarityScore, cohesionScore, coverageScore, granularityScore, storytellingScore, overallScore) ==
    [chapter_number |-> chapterNumber, summary |-> summary,
     clarity_score |-> clarityScore, cohesion_score |-> cohesionScore,
     coverage_score |-> coverageScore, granularity_score |-> granularityScore,
     storytelling_score |-> storytellingScore, overall_score |-> overallScore]

\* Index of the row an upsert on chapter_number would overwrite, 0 if none.
SameChapter(rows, row) ==
    IF \E k \in 1..Len(rows) : rows[k].chapter_number = row.chapter_number
    THEN CHOOSE k \in 1..Len(rows) :
             rows[k].chapter_number = row.chapter_number
    ELSE 0

\* An upsert keyed on chapter_number.
insertUpsert(rows, row) ==
    IF SameChapter(rows, row) = 0 THEN Append(rows, row)
    ELSE [rows EXCEPT ![SameChapter(rows, row)] = row]

\* supabase.from("summaries").insert([row]) when the store accepts it.
insert(rows, row) == Append(rows, row)

\* --------------------------------------------------------------- state
VARIABLES
    proc,       \* "checking" (listener bound, startup read in flight),
                \* "serving" or "exited"
    pc,         \* per request: "idle", the call awaited, or "done"
    file,       \* per request: "none", "present" or "deleted" temp file
    text,       \* per request: the extracted text
    chapters,   \* per request: the segments
    i,          \* per request: the loop index (0-based)
    result,     \* per request: the destructured fields awaiting the insert
    response,   \* per request: 0 (none yet), 200 or 500
    store,      \* the rows of table summaries, in insertion order
    owner,      \* history: the request that inserted each row of store
    log,        \* history, per request: the outbound calls and their ends
    replies,    \* history, per request: the completion text of each chapter
    failure     \* history, per request: <<stage, chapter>> of the error

vars == <<proc, pc, file, text, chapters, i, result, response, store, owner,
          log, replies, failure>>

NoFailure == <<"none", 0>>

Init ==
    /\ proc = "checking"
    /\ pc = [r \in Req |-> "idle"]
    /\ file = [r \in Req |-> "none"]
    /\ text = [r \in Req |-> <<>>]
    /\ chapters = [r \in Req |-> <<>>]
    /\ i = [r \in Req |-> 0]
    /\ result = [r \in Req |-> NoResult]
    /\ response = [r \in Req |-> 0]
    /\ store = <<>>
    /\ owner = <<>>
    /\ log = [r \in Req |-> <<>>]
    /\ replies = [r \in Req |-> <<>>]
    /\ failure = [r \in Req |-> NoFailure]

Running == proc # "exited"

Call(r, op, k) == log' = [log EXCEPT ![r] = Append(@, <<op, k, "start">>)]

\* The awaited call ends with outcome how and the handler issues op.
EndAndCall(r, how, op, k) ==
    log' = [log EXCEPT ![r] =
               @ \o << <<@[Len(@)][1], @[Len(@)][2], how>>, <<op, k, "start">> >>]

End(r, how) ==
    log' = [log EXCEPT ![r] = Append(@, <<@[Len(@)][1], @[Len(@)][2], how>>)]

\* res.status(500) of the catch block, line 186.
catchStatus(stage) == 500

\* The rejection escapes the handler and ends the process.
procAfterCatchCrash(p) == "exited"

\* The catch block returns normally: the process keeps running.
procAfterCatch(p) == p

\* catch (error) { ... res.status(500).json(...) }, lines 184-187.
Catch(r, stage, k) ==
    /\ pc' = [pc EXCEPT ![r] = "done"]
    /\ response' = [response EXCEPT ![r] = catchStatus(stage)]
    /\ failure' = [failure EXCEPT ![r] = <<stage, k>>]
    /\ proc' = procAfterCatch(proc)

\* The loop started one chapter late.
firstIndexOne == 2 - 1

\* let i = 0 of the for loop, line 151.
firstIndex == 0

\* i + 1, lines 152, 167 and 177.
chapterNumberOf(n) == n + 1

\* i++ of the for loop, line 151.
nextIndex(n) == n + 1

\* for (...; i < chapters.length; ...): the next awaited call.
LoopOrUnlink(r, n, chs, how) ==
    IF n < Len(chs)
    THEN /\ pc' = [pc EXCEPT ![r] = "llm"]
         /\ EndAndCall(r, how, "llm", chapterNumberOf(n))
    ELSE /\ pc' = [pc EXCEPT ![r] = "unlink"]
         /\ EndAndCall(r, how, "unlink", 0)


\* ---------------------------------------------------------- startup check
\* checkSupabaseConnection returned true: nothing else happens.
CheckOk ==
    /\ proc = "checking"
    /\ proc' = "serving"
    /\ UNCHANGED <<pc, file, text, chapters, i, result, response, store,
                   owner, log, replies, failure>>

\* The read returned an error or threw: process.exit(1), line 198.
CheckFail ==
    /\ proc = "checking"
    /\ proc' = "exited"
    /\ UNCHANGED <<pc, file, text, chapters, i, result, response, store,
                   owner, log, replies, failure>>

\* -------------------------------------------------------- POST /upload
\* A request arrives at the bound listener.  With a file, multer has
\* written the temp file and the handler awaits fs.readFile; without one,
\* req.file.path throws inside the try block.
Upload(r, hasFile) ==
    /\ Running
    /\ pc[r] = "idle"
    /\ \A q \in Req : q < r => pc[q] # "idle"
    /\ IF hasFile
       THEN /\ file' = [file EXCEPT ![r] = "present"]
            /\ pc' = [pc EXCEPT ![r] = "readFile"]
            /\ Call(r, "readFile", 0)
            /\ UNCHANGED <<proc, response, failure>>
       ELSE /\ Catch(r, "nofile", 0)
            /\ UNCHANGED <<file, log>>
    /\ UNCHANGED <<text, chapters, i, result, store, owner, replies>>

ReadFileOk(r) ==
    /\ Running
    /\ pc[r] = "readFile"
    /\ pc' = [pc EXCEPT ![r] = "pdfParse"]
    /\ EndAndCall(r, "ok", "pdfParse", 0)
    /\ UNCHANGED <<proc, file, text, chapters, i, result, response, store,
                   owner, replies, failure>>

ExtractFail(r) ==
    /\ Running
    /\ pc[r] \in {"readFile", "pdfParse"}
    /\ End(r, "fail")
    /\ Catch(r, "extract", 0)
    /\ UNCHANGED <<file, text, chapters, i, result, store, owner, replies>>

\* pdfParse resolves with text t; the handler segments it and enters the
\* loop, or goes to fs.unlink when there is no chapter.
PdfParseOk(r, t) ==
    /\ Running
    /\ pc[r] = "pdfParse"
    /\ text' = [text EXCEPT ![r] = t]
    /\ chapters' = [chapters EXCEPT ![r] = segmentIntoChapters(t)]
    /\ i' = [i EXCEPT ![r] = firstIndex]
    /\ LoopOrUnlink(r, firstIndex, segmentIntoChapters(t), "ok")
    /\ UNCHANGED <<proc, file, result, response, store, owner, replies,
                   failure>>

\* The completion request rejects (or carries no choice).
LlmThrow(r) ==
    /\ Running
    /\ pc[r] = "llm"
    /\ End(r, "fail")
    /\ Catch(r, "llm", chapterNumberOf(i[r]))
    /\ UNCHANGED <<file, text, chapters, i, result, store, owner, replies>>

\* The completion arrives with text responseText: getSummaryFromDeepSeek
\* throws, or returns null (which the destructuring at line 155 rejects),
\* or returns an object and the handler awaits the insert.
LlmOk(r, responseText) ==
    /\ Running
    /\ pc[r] = "llm"
    /\ replies' = [replies EXCEPT ![r] = Append(@, responseText)]
    /\ LET out == getSummaryFromDeepSeek(responseText)
       IN  IF out = "throw"
           THEN /\ End(r, "ok")
                /\ Catch(r, "parse", chapterNumberOf(i[r]))
                /\ UNCHANGED result
           ELSE IF out = "null"
           THEN /\ End(r, "ok")
                /\ Catch(r, "destructure", chapterNumberOf(i[r]))
                /\ UNCHANGED result
           ELSE /\ result' = [result EXCEPT ![r] = Destructure(ObjectOf(out))]
                /\ pc' = [pc EXCEPT ![r] = "insert"]
                /\ EndAndCall(r, "ok", "insert", chapterNumberOf(i[r]))
                /\ UNCHANGED <<proc, response, failure>>
    /\ UNCHANGED <<file, text, chapters, i, store, owner>>

\* The row of the call at lines 166-175.
RowOf(n, res) ==
    NewRow(chapterNumberOf(n), res.summary, res.clarity_score, res.cohesion_score,
           res.coverage_score, res.granularity_score, res.storytelling_score,
           res.overall_score)

InsertOk(r) ==
    /\ Running
    /\ pc[r] = "insert"
    /\ store' = insert(store, RowOf(i[r], result[r]))
    /\ owner' = [k \in 1..Len(store') |->
                    IF k <= Len(store) /\ store'[k] = store[k]
                    THEN owner[k] ELSE r]
    /\ i' = [i EXCEPT ![r] = nextIndex(@)]
    /\ result' = [result EXCEPT ![r] = NoResult]
    /\ LoopOrUnlink(r, nextIndex(i[r]), chapters[r], "ok")
    /\ UNCHANGED <<proc, file, text, chapters, response, replies, failure>>

\* The insert returns an error (or rejects): no row is written.
InsertFail(r) ==
    /\ Running
    /\ pc[r] = "insert"
    /\ End(r, "fail")
    /\ Catch(r, "insert", chapterNumberOf(i[r]))
    /\ UNCHANGED <<file, text, chapters, i, result, store, owner, replies>>

UnlinkOk(r) ==
    /\ Running
    /\ pc[r] = "unlink"
    /\ file' = [file EXCEPT ![r] = "deleted"]
    /\ response' = [response EXCEPT ![r] = 200]
    /\ pc' = [pc EXCEPT ![r] = "done"]
    /\ End(r, "ok")
    /\ UNCHANGED <<proc, text, chapters, i, result, store, owner, replies,
                   failure>>

UnlinkFail(r) ==
    /\ Running
    /\ pc[r] = "unlink"
    /\ End(r, "fail")
    /\ Catch(r, "unlink", 0)
    /\ UNCHANGED <<file, text, chapters, i, result, store, owner, replies>>

Next ==
    \/ CheckOk
    \/ CheckFail
    \/ \E r \in Req, hasFile \in BOOLEAN : Upload(r, hasFile)
    \/ \E r \in Req : ReadFileOk(r)
    \/ \E r \in Req : ExtractFail(r)
    \/ \E r \in Req, t \in Docs : PdfParseOk(r, t)
    \/ \E r \in Req : LlmThrow(r)
    \/ \E r \in Req, responseText \in Responses : LlmOk(r, responseText)
    \/ \E r \in Req : InsertOk(r)
    \/ \E r \in Req : InsertFail(r)
    \/ \E r \in Req : UnlinkOk(r)
    \/ \E r \in Req : UnlinkFail(r)

Spec == Init /\ [][Next]_vars

\* ------------------------------------------------ segmenter specification
\* Request 1 awaits pdfParse, which may resolve with any text of at most
\* MaxLen tokens.
SegInit ==
    /\ proc = "serving"
    /\ pc = [r \in Req |-> IF r = 1 THEN "pdfParse" ELSE "idle"]
    /\ file = [r \in Req |-> IF r = 1 THEN "present" ELSE "none"]
    /\ text = [r \in Req |-> <<>>]
    /\ chapters = [r \in Req |-> <<>>]
    /\ i = [r \in Req |-> 0]
    /\ result = [r \in Req |-> NoResult]
    /\ response = [r \in Req |-> 0]
    /\ store = <<>>
    /\ owner = <<>>
    /\ log = [r \in Req |->
                 IF r = 1
                 THEN << <<"readFile", 0, "start">>, <<"readFile", 0, "ok">>,
                         <<"pdfParse", 0, "start">> >>
                 ELSE <<>>]
    /\ replies = [r \in Req |-> <<>>]
    /\ failure = [r \in Req |-> NoFailure]

SegNext == pc[1] = "pdfParse" /\ \E t \in Texts : PdfParseOk(1, t)

SegSpec == SegInit /\ [][SegNext]_vars


\* ------------------------------------------------------ derived notions
Done(r) == pc[r] = "done"

\* The rows of the store a request inserted, in insertion order.
RowsOf(r) ==
    LET idx == SelectSeq([k \in 1..Len(store) |-> k], LAMBDA k : owner[k] = r)
    IN  [j \in 1..Len(idx) |-> store[idx[j]]]

\* The completion text of chapter k was not JSON once the fences were gone.
NotJSON(r, k) ==
    /\ k <= Len(replies[r])
    /\ LET c == trim(stripFences(replies[r][k]))
       IN  ~(Len(c) = 1 /\ c[1] \in JsonTokens)

\* The object written in the completion text of chapter k.
ParsedOf(r, k) == ObjectOf(trim(stripFences(replies[r][k]))[1])

\* Row j of the request carries chapter number j and the seven fields of
\* the object parsed for chapter j.
RowMatches(r, j) ==
    LET row == RowsOf(r)[j]
        obj == ParsedOf(r, j)
    IN  /\ row.chapter_number = j
        /\ row.summary = obj.summary
        /\ row.clarity_score = obj.clarity_score
        /\ row.cohesion_score = obj.cohesion_score
        /\ row.coverage_score = obj.coverage_score
        /\ row.granularity_score = obj.granularity_score
        /\ row.storytelling_score = obj.storytelling_score
        /\ row.overall_score = obj.overall_score

Started(r, op, k) == \E j \in 1..Len(log[r]) : log[r][j] = <<op, k, "start">>

\* ------------------------------------------------------------------ C1
\* C1 (as stated): once a request that had an uploaded temp file has
\* responded, with 200 or with 500, the temp file no longer exists.
C1_TempFileGoneAfterResponse ==
    \A r \in Req : file[r] # "none" /\ response[r] # 0 => file[r] # "present"

\* ------------------------------------------------------------------ C2
\* C2: if summarisation of chapter k fails (the completion call throws or
\* its text is not JSON after fence stripping) or the insert of chapter k
\* fails, the request has responded 500, it made no LLM call and no insert
\* for a later chapter and no insert for chapter k after a failed
\* summarisation, and its rows in the store are exactly those of chapters
\* 1..k-1.
FailedAt(r, k) ==
    \/ failure[r] = <<"llm", k>>
    \/ failure[r] = <<"insert", k>>
    \/ NotJSON(r, k)

C2_FailureStopsRequest ==
    \A r \in Req : \A k \in 1..(Len(chapters[r]) + 1) :
        FailedAt(r, k) =>
            /\ Done(r)
            /\ response[r] = 500
            /\ Len(RowsOf(r)) = k - 1
            /\ \A j \in 1..Len(RowsOf(r)) : RowMatches(r, j)
            /\ \A m \in 1..(Len(chapters[r]) + 2) :
                   /\ m > k => ~Started(r, "llm", m) /\ ~Started(r, "insert", m)
                   /\ m = k /\ failure[r][1] # "insert" => ~Started(r, "insert", m)
            /\ ~Started(r, "unlink", 0)

C2_Witness ==
    \E r \in Req :
        /\ NotJSON(r, 2)
        /\ Len(RowsOf(r)) = 1
        /\ response[r] = 500

\* ------------------------------------------------------------------ C3
\* C3: when every LLM call and every insert of a request succeeded over a
\* text of N chapters, the request has inserted exactly N rows, numbered
\* 1..N in insertion order, and row i carries the fields parsed from the
\* completion of chapter i.
AllChaptersStored(r) ==
    /\ pc[r] \in {"unlink", "done"}
    /\ failure[r][1] \in {"none", "unlink"}
    /\ Started(r, "unlink", 0)

C3_SuccessInsertsNRows ==
    \A r \in Req :
        AllChaptersStored(r) =>
            /\ Len(RowsOf(r)) = Len(chapters[r])
            /\ Len(replies[r]) = Len(chapters[r])
            /\ \A j \in 1..Len(RowsOf(r)) : RowMatches(r, j)

C3_Witness ==
    \E r \in Req :
        /\ response[r] = 200
        /\ Len(chapters[r]) = 2
        /\ Len(RowsOf(r)) = 2
        /\ RowsOf(r)[2].chapter_number = 2
        /\ RowsOf(r)[2].summary = "sA"

\* ------------------------------------------------------------------ C4
\* C4 (as stated): if the startup read fails, the process has exited
\* without any upload request having been accepted or processed.
C4_NoRequestBeforeExit ==
    proc = "exited" => \A r \in Req : pc[r] = "idle"

\* ------------------------------------------------------------------ C5
\* Position q of text lies in an occurrence of the heading: the word in
\* either case, one token of seps, one or more digits.
InHeading(t, q, seps) ==
    \E p \in 1..q :
        /\ p + 2 <= Len(t)
        /\ t[p] \in Word
        /\ t[p + 1] \in seps
        /\ t[p + 2] \in Digit
        /\ \A m \in (p + 3)..q : t[m] \in Digit

\* The maximal runs of positions outside every heading.
PieceBounds(t, seps) ==
    {b \in (1..Len(t)) \X (1..Len(t)) :
        /\ b[1] <= b[2]
        /\ \A q \in b[1]..b[2] : ~InHeading(t, q, seps)
        /\ b[1] = 1 \/ InHeading(t, b[1] - 1, seps)
        /\ b[2] = Len(t) \/ InHeading(t, b[2] + 1, seps)}

InOrder(S) ==
    CHOOSE f \in [1..Cardinality(S) -> S] :
        \A j, k \in 1..Cardinality(S) : j < k => f[j][1] < f[k][1]

PiecesOf(t, seps) ==
    LET f == InOrder(PieceBounds(t, seps))
    IN  [j \in 1..Len(f) |-> SubSeq(t, f[j][1], f[j][2])]

Blank(c) == \A m \in 1..Len(c) : c[m] \in Whitespace

Trimmed(c) == c = <<>> \/ (c[1] \notin Whitespace /\ c[Len(c)] \notin Whitespace)

\* The request has segmented its text.
Segmented(r) ==
    /\ Started(r, "pdfParse", 0)
    /\ pc[r] # "pdfParse"
    /\ failure[r][1] # "extract"

\* The segments as the claim words them: headings with any whitespace
\* between word and digits, every piece trimmed, the empty ones removed.
ClaimedChapters(t) ==
    LET pieces == PiecesOf(t, Whitespace)
    IN  SelectSeq([j \in 1..Len(pieces) |-> trim(pieces[j])],
                  LAMBDA c : c # <<>>)

\* C5 (as stated): the result is the list of the trimmed non-empty pieces
\* between the headings "Chapter", whitespace, digits; every chapter is
\* non-empty and free of leading and trailing whitespace; a text without a
\* heading yields its trimmed self.
C5_SegmentsTrimmed ==
    \A r \in Req :
        Segmented(r) =>
            /\ chapters[r] = ClaimedChapters(text[r])
            /\ \A j \in 1..Len(chapters[r]) :
                   chapters[r][j] # <<>> /\ Trimmed(chapters[r][j])
            /\ (\A q \in 1..Len(text[r]) : ~InHeading(text[r], q, Whitespace))
                   => chapters[r] = <<trim(text[r])>>

\* C5 (amended): the result is the ordered list of the pieces between the
\* headings "Chapter", one space character, digits (either letter case),
\* without the pieces that are empty or whitespace only, each kept as it
\* is (untrimmed); every chapter holds a non-whitespace character; a text
\* without a heading yields itself, or nothing when it is blank.
C5_SegmentsUntrimmed ==
    \A r \in Req :
        Segmented(r) =>
            /\ chapters[r] =
                   SelectSeq(PiecesOf(text[r], {Space}), LAMBDA c : ~Blank(c))
            /\ \A j \in 1..Len(chapters[r]) : ~Blank(chapters[r][j])
            /\ (\A q \in 1..Len(text[r]) : ~InHeading(text[r], q, {Space}))
                   => chapters[r] =
                          IF Blank(text[r]) THEN <<>> ELSE <<text[r]>>

C5_Witness ==
    /\ Segmented(1)
    /\ text[1] = <<"a", "CHAPTER", " ", "1", "\n">>
    /\ chapters[1] = << <<"a">> >>

\* ------------------------------------------------------------------ C8
\* C8 (as stated): every text segments into at least one chapter, so every
\* request past extraction makes the LLM call of chapter 1.
C8_AtLeastOneChapter ==
    \A r \in Req :
        Segmented(r) => Len(chapters[r]) >= 1 /\ Started(r, "llm", 1)

\* C8 (amended): segmentation yields a sequence for every text, with at
\* least one chapter exactly when a non-whitespace token lies outside the
\* headings; a request past extraction makes the LLM call of chapter 1 in
\* that case and otherwise goes to the deletion of the temp file with no
\* LLM call.
HasContent(t) ==
    \E q \in 1..Len(t) :
        t[q] \notin Whitespace /\ ~InHeading(t, q, {Space})

C8_ChapterIffContent ==
    \A r \in Req :
        Segmented(r) =>
            /\ chapters[r] \in Seq(Seq(Alphabet))
            /\ Len(chapters[r]) >= 1 <=> HasContent(text[r])
            /\ Started(r, "llm", 1) <=> HasContent(text[r])
            /\ ~HasContent(text[r]) =>
                   Started(r, "unlink", 0) /\ replies[r] = <<>>

C8_Witness ==
    /\ Segmented(1)
    /\ text[1] = <<"\n", "Chapter", " ", "1", " ">>
    /\ chapters[1] = <<>>
    /\ pc[1] = "unlink"

\* ------------------------------------------------------------------ C6
\* C6: every failure inside a request ends the request with the response
\* 500 whatever the stage, the step that fails leaves the process state as
\* it was, and the process state becomes "exited" only by the failing
\* startup check.
C6_FailuresCaughtProcessServes ==
    /\ [](\A r \in Req :
            failure[r] # NoFailure => Done(r) /\ response[r] = 500)
    /\ [](\A r \in Req : response[r] \in {0, 200, 500})
    /\ [][(\E r \in Req : failure'[r] # failure[r]) => proc' = proc]_vars
    /\ [][proc' = "exited" /\ proc # "exited" =>
             /\ proc = "checking"
             /\ UNCHANGED <<pc, response, failure, store>>]_vars

C6_Witness ==
    /\ proc = "serving"
    /\ failure[1] = <<"insert", 1>>
    /\ response[1] = 500
    /\ response[2] = 200

\* ------------------------------------------------------------------ C7
\* C7: in the call history of a request every call is ended before the
\* next one starts (at most one call in flight), the LLM call of chapter 1
\* is the first chapter call, the LLM call of chapter k+1 starts right
\* after the successful insert of chapter k, and the insert of chapter k
\* starts right after the successful LLM call of chapter k.
C7_SequentialChapters ==
    \A r \in Req : \A j \in 1..Len(log[r]) :
        LET e == log[r][j] IN
        /\ (j % 2 = 1) <=> (e[3] = "start")
        /\ e[3] # "start" => log[r][j - 1] = <<e[1], e[2], "start">>
        /\ e = <<"insert", e[2], "start">> => log[r][j - 1] = <<"llm", e[2], "ok">>
        /\ e = <<"llm", e[2], "start">> =>
               \/ e[2] = 1 /\ log[r][j - 1] = <<"pdfParse", 0, "ok">>
               \/ e[2] > 1 /\ log[r][j - 1] = <<"insert", e[2] - 1, "ok">>
                           /\ <<"llm", e[2] - 1, "ok">> = log[r][j - 3]

C7_Witness ==
    \E r \in Req :
        /\ pc[r] = "insert"
        /\ Started(r, "insert", 2)
        /\ Len(RowsOf(r)) = 1

\* ------------------------------------------------------------------ C9
\* C9 (as stated): when extraction and every chapter succeeded and only
\* the deletion of the temp file failed, the response is 200.
C9_CleanupFailureKeepsSuccess ==
    \A r \in Req : failure[r] = <<"unlink", 0>> => response[r] = 200

\* ------------------------------------------------------------------ C10
\* C10: whatever the interleaving, the rows of a request are numbered
\* 1, 2, ... in insertion order and carry what was parsed from its own
\* completions, its response is 200 exactly when none of its own steps
\* failed, every step changes the state of one request only and leaves the
\* rows of the others as they are, and the store only grows by appending.
Local(r) ==
    <<pc[r], file[r], text[r], chapters[r], i[r], result[r], response[r],
      log[r], replies[r], failure[r]>>

C10_RequestsIndependent ==
    /\ [](\A r \in Req :
            /\ \A j \in 1..Len(RowsOf(r)) : RowMatches(r, j)
            /\ Len(RowsOf(r)) = i[r]
            /\ Done(r) => (response[r] = 200 <=> failure[r] = NoFailure)
            /\ Done(r) /\ failure[r] = NoFailure /\ file[r] # "none"
                   => Len(RowsOf(r)) = Len(chapters[r]))
    /\ [][/\ Len(store') >= Len(store)
          /\ SubSeq(store', 1, Len(store)) = store
          /\ \E r \in Req : \A q \in Req \ {r} :
                 Local(q)' = Local(q) /\ RowsOf(q)' = RowsOf(q)]_vars

C10_Witness ==
    /\ Len(owner) >= 3
    /\ owner[1] = 1 /\ owner[2] = 2 /\ owner[3] = 1
    /\ response[1] = 200
    /\ failure[2] = <<"llm", 2>>

=============================================================================
